---- MODULE Spec2Model ----
(***************************************************************************)
(* Model of the attendance API of src/main.py (the active code, lines      *)
(* 379-641): the FastAPI handlers over the MongoDB collections users,      *)
(* attendance, post and images, and the Cloudinary image service.          *)
(*                                                                         *)
(* A collection is the sequence of its documents in insertion order, which *)
(* is the order find_one, update_one and delete_one pick their first match *)
(* in.  A response is [status, body]; an HTTPException is a response whose *)
(* body is [detail |-> ...].  Formatted strings are sequences of their     *)
(* parts.                                                                  *)
(***************************************************************************)
EXTENDS Integers, Sequences, FiniteSets, TLC

VARIABLES
    users,       \* users_collection
    attendance,  \* attendance_collection
    post,        \* post_collection
    images,      \* db["images"]
    cloud,       \* public ids uploaded to the image service
    req,         \* the request handled by the last step
    resp,        \* the response of the last step
    signedUp,    \* history: the password each email was last signed up with
    pc,          \* per worker: position inside an interleaved signup
    loc,         \* per worker: the locals of its interleaved signup
    marks        \* history: the number of mark_attendance calls that succeeded

vars == <<users, attendance, post, images, cloud, req, resp, signedUp, pc, loc, marks>>

stores == <<users, attendance, post, images, cloud>>

-----------------------------------------------------------------------------
(* Bounds and input domains *)

MaxUsers == 2
MaxDocs == 1

Emails == {"ana@x.com", "bob@x.com"}
Names == {"Ana", "Bob"}
Passwords == {"secret", "wrong"}
Salts == {"saltA"}
Times == {"2025-01-01 09:00:00"}
ContentTypes == {"image/jpeg", "image/png", "image/gif", "text/plain"}
Workers == {"w1", "w2"}

None == [none |-> TRUE]
NoPassword == "<none>"

PostInputs ==
    { [name |-> n, email |-> "ana@x.com", postText |-> "hello",
       address |-> "1 Main", city |-> "Lahore"] : n \in Names }

-----------------------------------------------------------------------------
(* Password hasher *)

\* bcrypt's one-way function of salt and password, injective in the password
BcryptDigest(salt, password) == <<"bcrypt", salt, password>>

hash_password(password, salt) ==
    [salt |-> salt, digest |-> BcryptDigest(salt, password)]

verify_password(password, hashed) ==
    BcryptDigest(hashed.salt, password) = hashed.digest

-----------------------------------------------------------------------------
(* Store operations *)

HasDoc(coll, email) == \E i \in 1..Len(coll) : coll[i].email = email

FirstIndex(coll, email) ==
    CHOOSE i \in 1..Len(coll) :
        /\ coll[i].email = email
        /\ \A j \in 1..(i - 1) : coll[j].email # email

find_one(coll, email) ==
    IF HasDoc(coll, email) THEN coll[FirstIndex(coll, email)] ELSE None

find(coll, email) == SelectSeq(coll, LAMBDA d : d.email = email)

RemoveAt(coll, i) == SubSeq(coll, 1, i - 1) \o SubSeq(coll, i + 1, Len(coll))

delete_one(coll, email) ==
    IF HasDoc(coll, email)
    THEN [coll |-> RemoveAt(coll, FirstIndex(coll, email)), deleted_count |-> 1]
    ELSE [coll |-> coll, deleted_count |-> 0]

\* variant: the update also writes the new value into the password field
update_one_name_overwrites_password(coll, email, name) ==
    IF HasDoc(coll, email)
    THEN LET i == FirstIndex(coll, email) IN
         [coll |-> [coll EXCEPT ![i].name = name,
                                ![i].password = hash_password(name, "saltA")],
          modified_count |-> 1]
    ELSE [coll |-> coll, modified_count |-> 0]

\* variant: the update ignores its filter and renames every document
update_one_name_all(coll, email, name) ==
    [coll |-> [i \in 1..Len(coll) |-> [coll[i] EXCEPT !.name = name]],
     modified_count |-> IF \E i \in 1..Len(coll) : coll[i].name # name
                        THEN 1 ELSE 0]

update_one_name(coll, email, name) ==
    IF HasDoc(coll, email)
    THEN LET i == FirstIndex(coll, email) IN
         [coll |-> [coll EXCEPT ![i].name = name],
          modified_count |-> IF coll[i].name = name THEN 0 ELSE 1]
    ELSE [coll |-> coll, modified_count |-> 0]

insert_one(coll, doc) == Append(coll, doc)

-----------------------------------------------------------------------------
(* Responses *)

HTTPException(status_code, detail) ==
    [status |-> status_code, body |-> [detail |-> detail]]

Return(body) == [status |-> 200, body |-> body]

IsException(r) == r.status # 200

\* an exception that is no HTTPException (raised by the image service client)
CloudinaryError == [status |-> 0, body |-> [detail |-> <<"upload failed">>]]

StatusText(status_code) ==
    CASE status_code = 400 -> "400:"
      [] status_code = 401 -> "401:"
      [] status_code = 404 -> "404:"
      [] OTHER -> "500:"

\* str(e): "<status_code>: <detail>" for an HTTPException
StrException(r) ==
    IF r.status = 0 THEN r.body.detail ELSE <<StatusText(r.status)>> \o r.body.detail

-----------------------------------------------------------------------------
(* Handlers, as functions of the store and the request *)

\* the existence check of signup
signup_exists(us, email) == find_one(us, email) # None

\* variant: the store enforces a unique index on email and drops the insert
signup_insert_unique(us, name, email, hashed) ==
    IF HasDoc(us, email)
    THEN us
    ELSE insert_one(us, [name |-> name, email |-> email, password |-> hashed])

\* variant: the email is stored in the name field
signup_insert_wrong_name(us, name, email, hashed) ==
    insert_one(us, [name |-> email, email |-> email, password |-> hashed])

\* the insert of signup
signup_insert(us, name, email, hashed) ==
    insert_one(us, [name |-> name, email |-> email, password |-> hashed])

signup_return(name, email) ==
    Return([status |-> "success",
            message |-> "User registered successfully!",
            user |-> [name |-> name, email |-> email]])

\* variant: no existence check
signup_try_nocheck(us, name, email, hashed) ==
    [users |-> insert_one(us, [name |-> name, email |-> email, password |-> hashed]),
     resp |-> Return([status |-> "success",
                      message |-> "User registered successfully!",
                      user |-> [name |-> name, email |-> email]])]

\* variant: the insert runs before the existence check
signup_try_insert_first(us, name, email, hashed) ==
    LET inserted == insert_one(us, [name |-> name, email |-> email,
                                    password |-> hashed])
    IN IF HasDoc(us, email)
       THEN [users |-> inserted,
             resp |-> HTTPException(400, <<"User already exists">>)]
       ELSE [users |-> inserted,
             resp |-> Return([status |-> "success",
                              message |-> "User registered successfully!",
                              user |-> [name |-> name, email |-> email]])]

\* the try block of signup
signup_try(us, name, email, hashed) ==
    IF signup_exists(us, email)
    THEN [users |-> us,
          resp |-> HTTPException(400, <<"User already exists">>)]
    ELSE [users |-> signup_insert(us, name, email, hashed),
          resp |-> signup_return(name, email)]

\* what "except Exception" makes of an exception of the try block
signup_except(e) == HTTPException(500, <<"Signup error:">> \o StrException(e))

\* signup: the try block under "except Exception", which HTTPException is
signup(us, name, email, hashed) ==
    LET r == signup_try(us, name, email, hashed) IN
    IF IsException(r.resp)
    THEN [users |-> r.users, resp |-> signup_except(r.resp)]
    ELSE r

\* variant: an unknown email is answered like a wrong password
login_unknown_401(us, email, password) ==
    LET user == find_one(us, email) IN
    IF user = None
    THEN HTTPException(401, <<"Invalid password">>)
    ELSE IF ~verify_password(password, user.password)
    THEN HTTPException(401, <<"Invalid password">>)
    ELSE Return([message |-> <<"Welcome", user.name, "Login successful.">>])

\* variant: the welcome message carries the email instead of the stored name
login_welcome_email(us, email, password) ==
    LET user == find_one(us, email) IN
    IF user = None
    THEN HTTPException(404, <<"User not found">>)
    ELSE IF ~verify_password(password, user.password)
    THEN HTTPException(401, <<"Invalid password">>)
    ELSE Return([message |-> <<"Welcome", user.email, "Login successful.">>])

login(us, email, password) ==
    LET user == find_one(us, email) IN
    IF user = None
    THEN HTTPException(404, <<"User not found">>)
    ELSE IF ~verify_password(password, user.password)
    THEN HTTPException(401, <<"Invalid password">>)
    ELSE Return([message |-> <<"Welcome", user.name, "Login successful.">>])

\* variant: no check that the user exists; the record carries the email as name
mark_attendance_nocheck(us, att, email, now) ==
    LET user == find_one(us, email)
        name == IF user = None THEN email ELSE user.name
        record == [email |-> email, name |-> name, time |-> now]
    IN [attendance |-> insert_one(att, record),
        resp |-> Return([message |-> <<"Attendance marked for", name>>,
                         time |-> record.time])]

mark_attendance(us, att, email, now) ==
    LET user == find_one(us, email) IN
    IF user = None
    THEN [attendance |-> att, resp |-> HTTPException(404, <<"User not found">>)]
    ELSE LET record == [email |-> email, name |-> user.name, time |-> now] IN
         [attendance |-> insert_one(att, record),
          resp |-> Return([message |-> <<"Attendance marked for", user.name>>,
                           time |-> record.time])]

view_user_attendance(att, email) ==
    LET records == find(att, email) IN
    IF records = <<>>
    THEN HTTPException(404, <<"No attendance found for", email>>)
    ELSE Return([total_records |-> Len(records), attendance |-> records])

\* variant: deleted_count is not looked at
delete_user_nocheck(us, email) ==
    LET result == delete_one(us, email) IN
    [users |-> result.coll,
     resp |-> Return([message |-> <<"User", email, "deleted successfully">>])]

delete_user(us, email) ==
    LET result == delete_one(us, email) IN
    IF result.deleted_count = 0
    THEN [users |-> result.coll, resp |-> HTTPException(404, <<"User not found">>)]
    ELSE [users |-> result.coll,
          resp |-> Return([message |-> <<"User", email, "deleted successfully">>])]

update_user_name(us, email, name) ==
    LET user == find_one(us, email) IN
    IF user = None
    THEN [users |-> us, resp |-> HTTPException(404, <<"User not found">>)]
    ELSE LET result == update_one_name(us, email, name) IN
         IF result.modified_count = 0
         THEN [users |-> result.coll,
               resp |-> Return([message |->
                                <<"Name is already the same, nothing changed">>])]
         ELSE [users |-> result.coll,
               resp |-> Return([message |->
                                <<"User", email, "name updated to", name>>])]

serialize_doc(doc) == [doc EXCEPT !.id = <<"str", doc.id>>]

create_post(ps, posting) ==
    LET inserted_id == Len(ps) + 1
        new_post == [id |-> inserted_id, name |-> posting.name,
                     email |-> posting.email, postText |-> posting.postText,
                     address |-> posting.address, city |-> posting.city]
    IN [post |-> insert_one(ps, new_post), resp |-> Return(serialize_doc(new_post))]

allowed_types == {"image/jpeg", "image/png", "image/gif"}

\* the try block of upload_image; uploaded: whether the image service accepts
upload_image_try(us, imgs, cl, email, content_type, now, uploaded) ==
    LET user == find_one(us, email) IN
    IF user = None
    THEN [images |-> imgs, cloud |-> cl,
          resp |-> HTTPException(404, <<"User not found">>)]
    ELSE IF content_type \notin allowed_types
    THEN [images |-> imgs, cloud |-> cl,
          resp |-> HTTPException(400,
                     <<"Invalid file type. Only JPEG, PNG, and GIF are allowed.">>)]
    ELSE IF ~uploaded
    THEN [images |-> imgs, cloud |-> cl,
          resp |-> CloudinaryError]
    ELSE LET public_id == <<email, now>>
             image_record == [email |-> email, name |-> user.name,
                              image_url |-> <<"https", public_id>>,
                              public_id |-> public_id, upload_time |-> now]
         IN [images |-> insert_one(imgs, image_record),
             cloud |-> Append(cl, public_id),
             resp |-> Return([message |->
                                <<"Image uploaded successfully for", user.name>>,
                              image_url |-> image_record.image_url,
                              upload_time |-> image_record.upload_time])]

upload_image(us, imgs, cl, email, content_type, now, uploaded) ==
    LET r == upload_image_try(us, imgs, cl, email, content_type, now, uploaded) IN
    IF IsException(r.resp)
    THEN [images |-> r.images, cloud |-> r.cloud,
          resp |-> HTTPException(500, <<"Image upload error:">> \o StrException(r.resp))]
    ELSE r

-----------------------------------------------------------------------------
(* Read-only handlers *)

home == Return([message |-> <<"Welcome to the Attendance API!">>])

test == Return([message |-> <<"Testing Done!">>])

\* the projection {"_id": 0, "password": 0}
ProjectOutPassword(doc) == [k \in DOMAIN doc \ {"password"} |-> doc[k]]

\* variant: the projection drops only _id
get_users_with_password(us) ==
    Return([total_users |-> Len(us), users |-> us])

get_users(us) ==
    LET listed == [i \in 1..Len(us) |-> ProjectOutPassword(us[i])] IN
    Return([total_users |-> Len(listed), users |-> listed])

\* the characters of the names and search patterns of the model
Chars(str) ==
    CASE str = "Ana" -> <<"A", "n", "a">>
      [] str = "Bob" -> <<"B", "o", "b">>
      [] str = "OB" -> <<"O", "B">>
      [] str = "zz" -> <<"z", "z">>
      [] OTHER -> <<"?">>

LowerChar(c) ==
    CASE c = "A" -> "a"
      [] c = "B" -> "b"
      [] c = "O" -> "o"
      [] OTHER -> c

\* {"$regex": pattern, "$options": "i"} for a pattern of plain characters:
\* the value contains the pattern, whatever the case
RegexMatchesI(pattern, value) ==
    LET pc_ == Chars(pattern)
        vc == Chars(value)
    IN \E off \in 0..(Len(vc) - Len(pc_)) :
          \A i \in 1..Len(pc_) : LowerChar(vc[off + i]) = LowerChar(pc_[i])

\* the try block of userSearch
userSearch_try(us, name) ==
    LET found == SelectSeq(us, LAMBDA d : RegexMatchesI(name, d.name))
        listed == [i \in 1..Len(found) |-> ProjectOutPassword(found[i])]
    IN IF listed = <<>>
       THEN HTTPException(404, <<"No users found with name containing", name>>)
       ELSE Return([total_users |-> Len(listed), users |-> listed])

userSearch(us, name) ==
    LET r == userSearch_try(us, name) IN
    IF IsException(r)
    THEN HTTPException(500, <<"Search error:">> \o StrException(r))
    ELSE r

user_count(us) == Return([total_users |-> Len(us)])

attendance_count(att) == Return([total_attendance_records |-> Len(att)])

post_search(ps, name) ==
    LET found == SelectSeq(ps, LAMBDA d : d.name = name) IN
    IF found = <<>>
    THEN HTTPException(404, <<"No post found for", name>>)
    ELSE Return(serialize_doc(found[1]))

getallPost(ps) ==
    Return([total_posts |-> Len(ps),
            posts |-> [i \in 1..Len(ps) |-> serialize_doc(ps[i])]])

-----------------------------------------------------------------------------
(* Routing: a path is the sequence of its segments *)

\* the routes of app, in the order of their declaration
Routes ==
    << [method |-> "GET", pattern |-> <<>>, endpoint |-> "home"],
       [method |-> "GET", pattern |-> <<"testingDone">>, endpoint |-> "test"],
       [method |-> "POST", pattern |-> <<"signup">>, endpoint |-> "signup"],
       [method |-> "POST", pattern |-> <<"login">>, endpoint |-> "login"],
       [method |-> "GET", pattern |-> <<"users">>, endpoint |-> "get_users"],
       [method |-> "POST", pattern |-> <<"mark_attendance">>,
        endpoint |-> "mark_attendance"],
       [method |-> "GET", pattern |-> <<"attendance", "{email}">>,
        endpoint |-> "view_user_attendance"],
       [method |-> "DELETE", pattern |-> <<"users", "{email}">>,
        endpoint |-> "delete_user"],
       [method |-> "PUT", pattern |-> <<"users", "{email}">>,
        endpoint |-> "update_user_name"],
       [method |-> "GET", pattern |-> <<"users", "filter", "{name}">>,
        endpoint |-> "userSearch"],
       [method |-> "GET", pattern |-> <<"users", "count">>, endpoint |-> "user_count"],
       [method |-> "GET", pattern |-> <<"attendance", "count">>,
        endpoint |-> "attendance_count"],
       [method |-> "POST", pattern |-> <<"post">>, endpoint |-> "post"],
       [method |-> "GET", pattern |-> <<"post", "{name}">>, endpoint |-> "post_search"],
       [method |-> "GET", pattern |-> <<"posts">>, endpoint |-> "getallPost"],
       [method |-> "POST", pattern |-> <<"upload_image">>, endpoint |-> "upload_image"] >>

IsParam(segment) == segment \in {"{email}", "{name}"}

PathMatches(pattern, path) ==
    /\ Len(pattern) = Len(path)
    /\ \A i \in 1..Len(pattern) : IsParam(pattern[i]) \/ pattern[i] = path[i]

\* the endpoint of the first route that matches path and method; a path that
\* only routes of other methods match is answered 405, any other path 404
Dispatch(method, path) ==
    LET full == {i \in 1..Len(Routes) :
                    Routes[i].method = method /\ PathMatches(Routes[i].pattern, path)}
        partial == {i \in 1..Len(Routes) : PathMatches(Routes[i].pattern, path)}
    IN IF full # {}
       THEN Routes[CHOOSE i \in full : \A j \in full : i <= j].endpoint
       ELSE IF partial # {} THEN "405" ELSE "404"

\* the response of a GET request dispatched to endpoint
HandleGet(us, att, ps, endpoint, path) ==
    CASE endpoint = "home" -> home
      [] endpoint = "test" -> test
      [] endpoint = "get_users" -> get_users(us)
      [] endpoint = "view_user_attendance" -> view_user_attendance(att, path[2])
      [] endpoint = "userSearch" -> userSearch(us, path[3])
      [] endpoint = "user_count" -> user_count(us)
      [] endpoint = "attendance_count" -> attendance_count(att)
      [] endpoint = "post_search" -> post_search(ps, path[2])
      [] endpoint = "getallPost" -> getallPost(ps)
      [] endpoint = "405" -> HTTPException(405, <<"Method Not Allowed">>)
      [] OTHER -> HTTPException(404, <<"Not Found">>)

SearchPatterns == {"OB", "zz"}

GetPaths ==
    {<<>>, <<"testingDone">>, <<"users">>, <<"users", "count">>,
     <<"attendance", "count">>, <<"attendance", "ana@x.com">>,
     <<"post", "Ana">>, <<"posts">>, <<"users", "ana@x.com">>}
       \cup {<<"users", "filter", p>> : p \in SearchPatterns}

-----------------------------------------------------------------------------
(* State machine: one request at a time *)

DocCount == Len(attendance) + Len(post) + Len(images)

Init ==
    /\ users = <<>>
    /\ attendance = <<>>
    /\ post = <<>>
    /\ images = <<>>
    /\ cloud = <<>>
    /\ req = [op |-> "start"]
    /\ resp = Return([message |-> <<"start">>])
    /\ signedUp = [e \in Emails |-> NoPassword]
    /\ pc = [w \in Workers |-> "idle"]
    /\ loc = [w \in Workers |-> None]
    /\ marks = 0

Signup ==
    \E name \in Names, email \in Emails, password \in Passwords, salt \in Salts :
        LET r == signup(users, name, email, hash_password(password, salt)) IN
        /\ Len(r.users) <= MaxUsers
        /\ users' = r.users
        /\ resp' = r.resp
        /\ req' = [op |-> "signup", name |-> name, email |-> email,
                   password |-> password]
        /\ signedUp' = IF r.resp.status = 200
                       THEN [signedUp EXCEPT ![email] = password]
                       ELSE signedUp
        /\ UNCHANGED <<attendance, post, images, cloud, pc, loc, marks>>

Login ==
    \E email \in Emails, password \in Passwords :
        /\ resp' = login(users, email, password)
        /\ req' = [op |-> "login", email |-> email, password |-> password]
        /\ UNCHANGED <<users, attendance, post, images, cloud, signedUp, pc, loc, marks>>

MarkAttendance ==
    \E email \in Emails, now \in Times :
        LET r == mark_attendance(users, attendance, email, now) IN
        /\ r.resp.status = 200 => DocCount < MaxDocs
        /\ attendance' = r.attendance
        /\ resp' = r.resp
        /\ req' = [op |-> "mark_attendance", email |-> email]
        /\ marks' = IF r.resp.status = 200 THEN marks + 1 ELSE marks
        /\ UNCHANGED <<users, post, images, cloud, signedUp, pc, loc>>

ViewUserAttendance ==
    \E email \in Emails :
        /\ resp' = view_user_attendance(attendance, email)
        /\ req' = [op |-> "view_user_attendance", email |-> email]
        /\ UNCHANGED <<users, attendance, post, images, cloud, signedUp, pc, loc, marks>>

DeleteUser ==
    \E email \in Emails :
        LET r == delete_user(users, email) IN
        /\ users' = r.users
        /\ resp' = r.resp
        /\ req' = [op |-> "delete_user", email |-> email]
        /\ signedUp' = IF r.resp.status = 200
                       THEN [signedUp EXCEPT ![email] = NoPassword]
                       ELSE signedUp
        /\ UNCHANGED <<attendance, post, images, cloud, pc, loc, marks>>

UpdateUserName ==
    \E email \in Emails, name \in Names :
        LET r == update_user_name(users, email, name) IN
        /\ users' = r.users
        /\ resp' = r.resp
        /\ req' = [op |-> "update_user_name", email |-> email, name |-> name]
        /\ UNCHANGED <<attendance, post, images, cloud, signedUp, pc, loc, marks>>

Post ==
    \E posting \in PostInputs :
        LET r == create_post(post, posting) IN
        /\ DocCount < MaxDocs
        /\ post' = r.post
        /\ resp' = r.resp
        /\ req' = [op |-> "post", posting |-> posting]
        /\ UNCHANGED <<users, attendance, images, cloud, signedUp, pc, loc, marks>>

UploadImage ==
    \E email \in Emails, content_type \in ContentTypes, now \in Times,
       uploaded \in BOOLEAN :
        LET r == upload_image(users, images, cloud, email, content_type, now,
                              uploaded) IN
        /\ r.resp.status = 200 => DocCount < MaxDocs
        /\ images' = r.images
        /\ cloud' = r.cloud
        /\ resp' = r.resp
        /\ req' = [op |-> "upload_image", email |-> email,
                   content_type |-> content_type]
        /\ UNCHANGED <<users, attendance, post, signedUp, pc, loc, marks>>

\* a GET request, dispatched by the routes
Get ==
    \E path \in GetPaths :
        LET endpoint == Dispatch("GET", path) IN
        /\ resp' = HandleGet(users, attendance, post, endpoint, path)
        /\ req' = [op |-> endpoint, method |-> "GET", path |-> path]
        /\ UNCHANGED <<users, attendance, post, images, cloud, signedUp, pc, loc, marks>>

Next ==
    \/ Get
    \/ Signup
    \/ Login
    \/ MarkAttendance
    \/ ViewUserAttendance
    \/ DeleteUser
    \/ UpdateUserName
    \/ Post
    \/ UploadImage

Spec == Init /\ [][Next]_vars

-----------------------------------------------------------------------------
(* State machine: signups interleaved at their store calls *)

\* find_one of signup, by worker w; a found user ends the request
SignupFind(w) ==
    \E name \in Names, email \in Emails, password \in Passwords, salt \in Salts :
        /\ pc[w] = "idle"
        /\ IF signup_exists(users, email)
           THEN /\ resp' = signup_except(HTTPException(400, <<"User already exists">>))
                /\ req' = [op |-> "signup", name |-> name, email |-> email,
                           password |-> password]
                /\ UNCHANGED <<pc, loc>>
           ELSE /\ pc' = [pc EXCEPT ![w] = "insert"]
                /\ loc' = [loc EXCEPT ![w] =
                              [name |-> name, email |-> email, password |-> password,
                               hashed_password |-> hash_password(password, salt)]]
                /\ UNCHANGED <<req, resp>>
        /\ UNCHANGED <<users, attendance, post, images, cloud, signedUp, marks>>

\* insert_one and the return of signup, by worker w
SignupInsert(w) ==
    /\ pc[w] = "insert"
    /\ Len(users) < MaxUsers
    /\ users' = signup_insert(users, loc[w].name, loc[w].email, loc[w].hashed_password)
    /\ resp' = signup_return(loc[w].name, loc[w].email)
    /\ req' = [op |-> "signup", name |-> loc[w].name, email |-> loc[w].email,
               password |-> loc[w].password]
    /\ signedUp' = [signedUp EXCEPT ![loc[w].email] = loc[w].password]
    /\ pc' = [pc EXCEPT ![w] = "idle"]
    /\ loc' = [loc EXCEPT ![w] = None]
    /\ UNCHANGED <<attendance, post, images, cloud, marks>>

NextConc ==
    \/ \E w \in Workers : SignupFind(w)
    \/ \E w \in Workers : SignupInsert(w)
    \/ DeleteUser

SpecConc == Init /\ [][NextConc]_vars

-----------------------------------------------------------------------------
(* Properties *)

NoDuplicateEmail(us) ==
    \A i, j \in 1..Len(us) : i # j => us[i].email # us[j].email

IsPrefix(a, b) == Len(a) <= Len(b) /\ SubSeq(b, 1, Len(a)) = a

\* C1: a signup whose email already has a user record is answered with status
\* 400 (DuplicateUser) and adds no user record.
C1_DuplicateSignupIs400 ==
    [][(req'.op = "signup" /\ HasDoc(users, req'.email))
          => (resp'.status = 400 /\ users' = users)]_vars

\* C2: with one request handled at a time, the users collection never holds
\* two records with the same email.
C2_UniqueEmail == NoDuplicateEmail(users)

\* a duplicate signup was turned away while both emails are registered
C2_Witness ==
    /\ req.op = "signup"
    /\ resp.status # 200
    /\ Len(users) = 2

\* C3: a signup that passed its existence check inserts its record whatever
\* the collection holds by then, so that two interleaved signups of one email
\* leave two records of it.
C3_InsertAfterCheck ==
    [][\A w \in Workers :
          (pc[w] = "insert" /\ pc'[w] = "idle")
             => /\ users' = Append(users, [name |-> loc[w].name,
                                           email |-> loc[w].email,
                                           password |-> loc[w].hashed_password])
                /\ resp'.status = 200
                /\ (HasDoc(users, loc[w].email) => ~NoDuplicateEmail(users'))]_vars

\* two records of one email, the second signup just answered with success
C3_Witness ==
    /\ req.op = "signup"
    /\ resp.status = 200
    /\ \E i, j \in 1..Len(users) :
          i < j /\ users[i].email = req.email /\ users[j].email = req.email

C5_LoginFailures ==
    [][req'.op = "login"
          => LET user == find_one(users, req'.email) IN
             /\ user = None => resp'.status = 404
             /\ (user # None /\ ~verify_password(req'.password, user.password))
                   => resp'.status = 401
             /\ resp'.status # 200
                   => /\ resp'.status \in {401, 404}
                      /\ UNCHANGED <<users, attendance, post>>]_vars

\* a login with the wrong password was refused, another for an email unknown
\* to the store would be
C5_Witness ==
    /\ req.op = "login"
    /\ resp.status = 401
    /\ HasDoc(users, req.email)
    /\ \E e \in Emails : ~HasDoc(users, e)

C7_PasswordKept ==
    \A e \in Emails :
        signedUp[e] # NoPassword
           => /\ login(users, e, signedUp[e]).status = 200
              /\ \A q \in Passwords \ {signedUp[e]} :
                    login(users, e, q).status = 401

\* the name of a signed-up user was just changed
C7_Witness ==
    /\ req.op = "update_user_name"
    /\ resp.status = 200
    /\ signedUp[req.email] # NoPassword
    /\ find_one(users, req.email).name = req.name
    /\ resp.body.message = <<"User", req.email, "name updated to", req.name>>

\* C8: a successful signup adds exactly one user record, of the given email,
\* and changes nothing else; an unsuccessful one changes nothing.
C8_SignupOneWrite ==
    [][req'.op = "signup"
          => /\ UNCHANGED <<attendance, post, images, cloud>>
             /\ IF resp'.status = 200
                THEN /\ Len(users') = Len(users) + 1
                     /\ IsPrefix(users, users')
                     /\ users'[Len(users')].email = req'.email
                ELSE users' = users]_vars

\* a second user signed up while another collection holds a document
C8_Witness ==
    /\ req.op = "signup"
    /\ resp.status = 200
    /\ Len(users) = 2
    /\ DocCount > 0

\* C9: a user record that stays in the collection changes only in an
\* update_user_name of its email, and then only in its name; an update for an
\* unknown email is answered 404 and one with the stored name reports that
\* nothing changed, both leaving the store unchanged.
C9_OnlyNameUpdateMutates ==
    [][/\ req'.op = "signup" => IsPrefix(users, users')
       /\ req'.op = "delete_user"
             => \/ users' = users
                \/ \E i \in 1..Len(users) : users' = RemoveAt(users, i)
       /\ req'.op \notin {"signup", "delete_user"}
             => /\ Len(users') = Len(users)
                /\ \A i \in 1..Len(users) :
                      users'[i] # users[i]
                         => /\ req'.op = "update_user_name"
                            /\ users[i].email = req'.email
                            /\ users'[i] = [users[i] EXCEPT !.name = req'.name]
       /\ req'.op = "update_user_name"
             => /\ ~HasDoc(users, req'.email)
                      => (resp'.status = 404 /\ UNCHANGED stores)
                /\ (HasDoc(users, req'.email)
                       /\ find_one(users, req'.email).name = req'.name)
                      => /\ resp'.status = 200
                         /\ resp'.body.message =
                               <<"Name is already the same, nothing changed">>
                         /\ UNCHANGED stores]_vars

\* one of two users was just renamed
C9_Witness ==
    /\ req.op = "update_user_name"
    /\ resp.status = 200
    /\ resp.body.message = <<"User", req.email, "name updated to", req.name>>
    /\ Len(users) = 2
    /\ \E i \in 1..2 : users[i].email # req.email

\* C10: delete_user of an existing user removes that user's record and keeps
\* every attendance record, so that view_user_attendance answers as before;
\* delete_user of an unknown email is answered 404 and changes nothing.
C10_DeleteOrphansAttendance ==
    [][req'.op = "delete_user"
          => IF HasDoc(users, req'.email)
             THEN /\ resp'.status = 200
                  /\ users' = RemoveAt(users, FirstIndex(users, req'.email))
                  /\ ~HasDoc(users', req'.email)
                  /\ \A i \in 1..Len(attendance) :
                        attendance[i].email = req'.email
                           => \E j \in 1..Len(attendance') :
                                 attendance'[j] = attendance[i]
                  /\ view_user_attendance(attendance', req'.email)
                        = view_user_attendance(attendance, req'.email)
                  /\ UNCHANGED <<attendance, post, images, cloud>>
             ELSE /\ resp'.status = 404
                  /\ UNCHANGED stores]_vars

\* a user with an attendance record was just deleted, and the record is
\* still listed
C10_Witness ==
    /\ req.op = "delete_user"
    /\ resp.status = 200
    /\ ~HasDoc(users, req.email)
    /\ HasDoc(attendance, req.email)
    /\ view_user_attendance(attendance, req.email).status = 200

\* C11: a GET of /attendance/count is handled by attendance_count and returns
\* the number of attendance records.
C11_AttendanceCountRoute ==
    [][("path" \in DOMAIN req' /\ req'.path = <<"attendance", "count">>)
          => /\ req'.op = "attendance_count"
             /\ resp' = Return([total_attendance_records |-> Len(attendance)])]_vars

C13_UploadRejections ==
    [][req'.op = "upload_image"
          => /\ ~HasDoc(users, req'.email)
                   => (resp'.status = 404 /\ UNCHANGED <<images, cloud>>)
             /\ (HasDoc(users, req'.email) /\ req'.content_type \notin allowed_types)
                   => (resp'.status = 400 /\ UNCHANGED <<images, cloud>>)]_vars

HoldsPassword(doc) == "password" \in DOMAIN doc

\* C14: no response carries a password field, at the top of its body, in its
\* user, or in a document of its users, while the users listed are all stored
\* with their hash.
C14_NoPasswordInResponse ==
    /\ ~HoldsPassword(resp.body)
    /\ "user" \in DOMAIN resp.body => ~HoldsPassword(resp.body.user)
    /\ "users" \in DOMAIN resp.body
          => \A i \in 1..Len(resp.body.users) : ~HoldsPassword(resp.body.users[i])
    /\ \A i \in 1..Len(users) : HoldsPassword(users[i])

\* both users were just listed, each stored with a password hash
C14_Witness ==
    /\ req.op = "get_users"
    /\ resp.status = 200
    /\ resp.body.total_users = 2
    /\ \A i \in 1..2 : HoldsPassword(users[i]) /\ resp.body.users[i].email = users[i].email

====
